---- MODULE Spec2Model ----
(***************************************************************************)
(* Timeline engine of tuneflow_py.models.song.Song: the tempo list, the    *)
(* time-signature list, the structure list, the tick <-> seconds           *)
(* conversion, the track list and the import from MIDI.                    *)
(*                                                                         *)
(* Lists are TLA+ sequences (1-based); every index that crosses the Python *)
(* API is 0-based as in the source, and -1 stands for "not found".         *)
(*                                                                         *)
(* Seconds are exact rationals with the fixed denominator SecondsDen: the  *)
(* field `time` holds the number of 1/SecondsDen seconds.  SecondsDen is   *)
(* chosen so that one tick lasts a whole number of units at the default    *)
(* resolution for every bpm of BPMs; float rounding is not modelled.       *)
(***************************************************************************)
EXTENDS Integers, Sequences, FiniteSets, TLC

VARIABLES resolution, tempos, time_signatures, structures, tracks, op

vars == <<resolution, tempos, time_signatures, structures, tracks, op>>

\* ------------------------------------------------------------------ bounds
MaxTick == 2
MaxLen == 3
MaxInput == 2
MaxStructures == 3
MaxStale == 3
MaxTime == 8
MaxTracks == 3
MaxInstruments == 2
MaxCC == 3

\* --------------------------------------------------------------- constants
DefaultResolution == 480
DefaultBpm == 120
DefaultNumerator == 4
DefaultDenominator == 4

BPMs == {60, DefaultBpm}
Ticks == 0..MaxTick
SecondsDen == (DefaultResolution * 120) \div 60

StructureTypes == {"INTRO", "VERSE"}

\* The events handed to overwrite_tempo_changes lie at the two ends of the
\* tick range.
InputTicks == {0, MaxTick}
TempoInputs == [ticks : InputTicks, bpm : BPMs]

\* Python's sorted()/list.sort(): stable, ascending by key.
\* keys[i] is the sort key of seq[i].
StableSort(seq, keys) ==
    LET n == Len(seq)
        rank == [i \in 1..n |-> 1 + Cardinality({j \in 1..n :
                        \/ keys[j] < keys[i]
                        \/ keys[j] = keys[i] /\ j < i})]
    IN [p \in 1..n |-> seq[CHOOSE i \in 1..n : rank[i] = p]]

\* list.insert(index, x) for 0 <= index <= len.
InsertAt(seq, index, x) ==
    SubSeq(seq, 1, index) \o <<x>> \o SubSeq(seq, index + 1, Len(seq))

\* del list[index] for 0 <= index < len.
DeleteAt(seq, index) ==
    SubSeq(seq, 1, index) \o SubSeq(seq, index + 2, Len(seq))

\* ------------------------------------------------- ordered event index
\* tuneflow_py.utils is not part of the sources: the three searches follow
\* the description of find_floor / find_strict_floor / find_ceiling, which
\* are binary searches that never sort: on a sorted list they return the
\* rightmost key <= probe, the rightmost key < probe and the leftmost key
\* >= probe (-1 when there is none); on an unsorted list they return what
\* the halving finds.  keys is the list seen through the caller's key
\* function; l, h and the result are 0-based.
RECURSIVE LowerEqualIn(_, _, _, _, _)
LowerEqualIn(keys, probe, l, h, found) ==
    IF l > h THEN found
    ELSE LET m == (l + h) \div 2
         IN IF keys[m + 1] <= probe
            THEN LowerEqualIn(keys, probe, m + 1, h, m)
            ELSE LowerEqualIn(keys, probe, l, m - 1, found)

lower_equal(keys, probe) == LowerEqualIn(keys, probe, 0, Len(keys) - 1, -1)

RECURSIVE LowerThanIn(_, _, _, _, _)
LowerThanIn(keys, probe, l, h, found) ==
    IF l > h THEN found
    ELSE LET m == (l + h) \div 2
         IN IF keys[m + 1] < probe
            THEN LowerThanIn(keys, probe, m + 1, h, m)
            ELSE LowerThanIn(keys, probe, l, m - 1, found)

lower_than(keys, probe) == LowerThanIn(keys, probe, 0, Len(keys) - 1, -1)

RECURSIVE GreaterEqualIn(_, _, _, _, _)
GreaterEqualIn(keys, probe, l, h, found) ==
    IF l > h THEN found
    ELSE LET m == (l + h) \div 2
         IN IF keys[m + 1] >= probe
            THEN GreaterEqualIn(keys, probe, l, m - 1, m)
            ELSE GreaterEqualIn(keys, probe, m + 1, h, found)

greater_equal(keys, probe) == GreaterEqualIn(keys, probe, 0, Len(keys) - 1, -1)

\* lambda x: x.ticks over a list of tempo events.
TicksOf(list) == [k \in 1..Len(list) |-> list[k].ticks]

\* ------------------------------------------------------------ tempo map
Raised(list) == [ok |-> FALSE, tempos |-> list]
Done(list) == [ok |-> TRUE, tempos |-> list]

get_tempo_event_count(list) == Len(list)

\* None is modelled by the index -1, an event by its 0-based index.
get_tempo_event_at(list, index) ==
    IF index < 0 \/ index >= Len(list) THEN -1 ELSE index

\* Mutant: the resolution is left out of the rate.
tempo_bpm_to_ticks_per_minute_without_ppq(tempo_bpm, PPQ) == tempo_bpm

\* Ticks per minute; the source divides by 60 to get ticks per second, the
\* division is carried out in tick_to_seconds to stay in the integers.
tempo_bpm_to_ticks_per_minute(tempo_bpm, PPQ) == tempo_bpm * PPQ

\* Mutant: the time of the base tempo is not added.
tick_to_seconds_without_base_time(list, PPQ, tick) ==
    IF tick = 0 THEN [ok |-> TRUE, v |-> 0]
    ELSE LET found == lower_than(TicksOf(list), tick)
             base_tempo_index == IF found = -1 THEN 0 ELSE found
         IN IF base_tempo_index >= Len(list) THEN [ok |-> FALSE, v |-> 0]
            ELSE LET base == list[base_tempo_index + 1]
                     ticks_delta == tick - base.ticks
                     rate == tempo_bpm_to_ticks_per_minute(base.bpm, PPQ)
                 IN IF rate = 0 THEN [ok |-> FALSE, v |-> 0]
                    ELSE [ok |-> TRUE, v |-> (ticks_delta * 60 * SecondsDen) \div rate]

\* Mutant: the first tempo is the base whatever the tick.
tick_to_seconds_from_first_tempo(list, PPQ, tick) ==
    IF tick = 0 THEN [ok |-> TRUE, v |-> 0]
    ELSE IF Len(list) = 0 THEN [ok |-> FALSE, v |-> 0]
    ELSE LET base == list[1]
             ticks_delta == tick - base.ticks
             rate == tempo_bpm_to_ticks_per_minute(base.bpm, PPQ)
         IN IF rate = 0 THEN [ok |-> FALSE, v |-> 0]
            ELSE [ok |-> TRUE,
                  v |-> base.time + (ticks_delta * 60 * SecondsDen) \div rate]

\* ok = FALSE: IndexError on an empty list, ZeroDivisionError on a zero rate.
tick_to_seconds(list, PPQ, tick) ==
    IF tick = 0 THEN [ok |-> TRUE, v |-> 0]
    ELSE LET found == lower_than(TicksOf(list), tick)
             base_tempo_index == IF found = -1 THEN 0 ELSE found
         IN IF base_tempo_index >= Len(list) THEN [ok |-> FALSE, v |-> 0]
            ELSE LET base == list[base_tempo_index + 1]
                     ticks_delta == tick - base.ticks
                     rate == tempo_bpm_to_ticks_per_minute(base.bpm, PPQ)
                 IN IF rate = 0 THEN [ok |-> FALSE, v |-> 0]
                    ELSE [ok |-> TRUE,
                          v |-> base.time + (ticks_delta * 60 * SecondsDen) \div rate]

TimesOf(list) == [k \in 1..Len(list) |-> list[k].time]

\* Python's round() of the rational n / d (d > 0): to the nearest integer,
\* a tie to the even one.
RoundHalfEven(n, d) ==
    LET q == n \div d
        rest == n % d
    IN IF 2 * rest < d THEN q
       ELSE IF 2 * rest > d THEN q + 1
       ELSE IF q % 2 = 0 THEN q ELSE q + 1

\* Mutant: the ticks of the base tempo are not added.
seconds_to_tick_without_base_ticks(list, PPQ, seconds) ==
    IF seconds = 0 THEN [ok |-> TRUE, v |-> 0]
    ELSE LET found == lower_than(TimesOf(list), seconds)
             base_tempo_index == IF found = -1 THEN 0 ELSE found
         IN IF base_tempo_index >= Len(list) THEN [ok |-> FALSE, v |-> 0]
            ELSE LET base == list[base_tempo_index + 1]
                     time_delta == seconds - base.time
                     rate == tempo_bpm_to_ticks_per_minute(base.bpm, PPQ)
                 IN [ok |-> TRUE,
                     v |-> RoundHalfEven(time_delta * rate, 60 * SecondsDen)]

\* seconds counts 1/SecondsDen seconds.  ok = FALSE: IndexError on an empty
\* list.
seconds_to_tick(list, PPQ, seconds) ==
    IF seconds = 0 THEN [ok |-> TRUE, v |-> 0]
    ELSE LET found == lower_than(TimesOf(list), seconds)
             base_tempo_index == IF found = -1 THEN 0 ELSE found
         IN IF base_tempo_index >= Len(list) THEN [ok |-> FALSE, v |-> 0]
            ELSE LET base == list[base_tempo_index + 1]
                     time_delta == seconds - base.time
                     rate == tempo_bpm_to_ticks_per_minute(base.bpm, PPQ)
                 IN [ok |-> TRUE,
                     v |-> RoundHalfEven(base.ticks * 60 * SecondsDen + time_delta * rate,
                                         60 * SecondsDen)]

\* The loop of retiming_tempo_events from position k on: an exception leaves
\* the events from k on with their old time.
RECURSIVE RetimeFrom(_, _, _)
RetimeFrom(list, PPQ, k) ==
    IF k > Len(list) THEN Done(list)
    ELSE LET r == tick_to_seconds(list, PPQ, list[k].ticks)
         IN IF ~r.ok THEN Raised(list)
            ELSE RetimeFrom([list EXCEPT ![k].time = r.v], PPQ, k + 1)

\* Mutant: every time is computed from the times the list had before the
\* loop.
retiming_tempo_events_from_old_times(list, PPQ) ==
    LET sorted_tempos == StableSort(list, TicksOf(list))
        times == [k \in 1..Len(sorted_tempos) |->
                     tick_to_seconds(sorted_tempos, PPQ, sorted_tempos[k].ticks)]
    IN IF \E k \in 1..Len(sorted_tempos) : ~times[k].ok THEN Raised(sorted_tempos)
       ELSE Done([k \in 1..Len(sorted_tempos) |->
                    [sorted_tempos[k] EXCEPT !.time = times[k].v]])

retiming_tempo_events(list, PPQ) ==
    RetimeFrom(StableSort(list, TicksOf(list)), PPQ, 1)

get_tempo_event_at_tick(list, tick) ==
    LET found == lower_equal(TicksOf(list), tick)
        clamped == IF found < 0 THEN 0 ELSE found
    IN IF clamped >= Len(list) THEN Len(list) - 1 ELSE clamped

\* Mutant: the insertion is not followed by retiming_tempo_events.
create_tempo_change_no_retiming(list, PPQ, ticks, bpm) ==
    IF PPQ <= 0 THEN Raised(list)
    ELSE IF get_tempo_event_count(list) = 0 /\ ticks # 0 THEN Raised(list)
    ELSE LET t == tick_to_seconds(list, PPQ, ticks)
             tempo_change == [ticks |-> ticks, bpm |-> bpm, time |-> t.v]
             insert_index == greater_equal(TicksOf(list), ticks)
         IN IF ~t.ok THEN Raised(list)
            ELSE IF insert_index < 0
                 THEN Done(Append(list, tempo_change))
                 ELSE Done(InsertAt(list, insert_index, tempo_change))

\* Mutant: the check of the resolution is missing.
create_tempo_change_any_resolution(list, PPQ, ticks, bpm) ==
    IF get_tempo_event_count(list) = 0 /\ ticks # 0 THEN Raised(list)
    ELSE LET t == tick_to_seconds(list, PPQ, ticks)
             tempo_change == [ticks |-> ticks, bpm |-> bpm, time |-> t.v]
             insert_index == greater_equal(TicksOf(list), ticks)
         IN IF ~t.ok THEN Raised(list)
            ELSE IF insert_index < 0
                 THEN retiming_tempo_events(Append(list, tempo_change), PPQ)
                 ELSE retiming_tempo_events(InsertAt(list, insert_index, tempo_change), PPQ)

create_tempo_change(list, PPQ, ticks, bpm) ==
    IF PPQ <= 0 THEN Raised(list)
    ELSE IF get_tempo_event_count(list) = 0 /\ ticks # 0 THEN Raised(list)
    ELSE LET t == tick_to_seconds(list, PPQ, ticks)
             tempo_change == [ticks |-> ticks, bpm |-> bpm, time |-> t.v]
             insert_index == greater_equal(TicksOf(list), ticks)
         IN IF ~t.ok THEN Raised(list)
            ELSE IF insert_index < 0
                 THEN retiming_tempo_events(Append(list, tempo_change), PPQ)
                 ELSE retiming_tempo_events(InsertAt(list, insert_index, tempo_change), PPQ)

\* Mutant: the check of index == 0 is missing.
remove_tempo_change_at_any_index(list, PPQ, index) ==
    IF get_tempo_event_count(list) <= 1 THEN Raised(list)
    ELSE LET at == IF index < 0 THEN index + Len(list) ELSE index
         IN IF at < 0 \/ at >= Len(list) THEN Raised(list)
            ELSE retiming_tempo_events(DeleteAt(list, at), PPQ)

\* list.pop(index): a negative index counts from the end, an index out of
\* range raises IndexError before anything is changed.
remove_tempo_change_at(list, PPQ, index) ==
    IF get_tempo_event_count(list) <= 1 THEN Raised(list)
    ELSE IF index = 0 THEN Raised(list)
    ELSE LET at == IF index < 0 THEN index + Len(list) ELSE index
         IN IF at < 0 \/ at >= Len(list) THEN Raised(list)
            ELSE retiming_tempo_events(DeleteAt(list, at), PPQ)

\* `tempo` wraps the list element fetched at tempo_index.  When a neighbour
\* is removed, remove_tempo_change_at ends in retiming_tempo_events, which
\* empties the repeated field and extends it again; extend copies every
\* message, so `tempo` then refers to an element that is no longer in the
\* list and tempo.set_ticks does not reach the list.
move_tempo(list, PPQ, tempo_index, move_to_tick) ==
    IF get_tempo_event_at(list, tempo_index) = -1 THEN Done(list)
    ELSE IF tempo_index = 0 THEN Done(list)
    ELSE IF get_tempo_event_at(list, tempo_index - 1) = -1 THEN Done(list)
    ELSE LET prev_tempo == list[tempo_index]
             has_next == tempo_index < get_tempo_event_count(list) - 1
             moved == [list EXCEPT ![tempo_index + 1].ticks = move_to_tick]
         IN IF prev_tempo.ticks = move_to_tick
            THEN LET r == remove_tempo_change_at(list, PPQ, tempo_index - 1)
                 IN IF ~r.ok THEN r ELSE retiming_tempo_events(r.tempos, PPQ)
            ELSE IF has_next /\ list[tempo_index + 2].ticks = move_to_tick
            THEN LET r == remove_tempo_change_at(list, PPQ, tempo_index + 1)
                 IN IF ~r.ok THEN r ELSE retiming_tempo_events(r.tempos, PPQ)
            ELSE retiming_tempo_events(moved, PPQ)

\* The loop over sorted_tempo_events[i..]: the first create_tempo_change that
\* raises ends the call with the list as built so far.
RECURSIVE OverwriteFrom(_, _, _, _)
OverwriteFrom(list, PPQ, sorted_tempo_events, i) ==
    IF i > Len(sorted_tempo_events) THEN Done(list)
    ELSE LET r == create_tempo_change(list, PPQ, sorted_tempo_events[i].ticks,
                                      sorted_tempo_events[i].bpm)
         IN IF ~r.ok THEN r
            ELSE OverwriteFrom(r.tempos, PPQ, sorted_tempo_events, i + 1)

\* Mutant: the loop starts at the earliest input event instead of the one
\* after it.
overwrite_tempo_changes_reinserting_first(list, PPQ, tempo_events) ==
    IF tempo_events = <<>> THEN Raised(list)
    ELSE LET sorted_tempo_events == StableSort(tempo_events, TicksOf(tempo_events))
             first_tempo_event == sorted_tempo_events[1]
             anchor == <<[ticks |-> 0, bpm |-> first_tempo_event.bpm, time |-> 0]>>
         IN IF first_tempo_event.ticks > 0 THEN Raised(list)
            ELSE LET r == OverwriteFrom(anchor, PPQ, sorted_tempo_events, 1)
                 IN IF ~r.ok THEN r ELSE retiming_tempo_events(r.tempos, PPQ)

\* Mutant: the earliest input event is taken over as it is, its tick neither
\* checked nor replaced by 0.
overwrite_tempo_changes_first_as_given(list, PPQ, tempo_events) ==
    IF tempo_events = <<>> THEN Raised(list)
    ELSE LET sorted_tempo_events == StableSort(tempo_events, TicksOf(tempo_events))
             first_tempo_event == sorted_tempo_events[1]
             anchor == <<[ticks |-> first_tempo_event.ticks,
                          bpm |-> first_tempo_event.bpm, time |-> 0]>>
             r == OverwriteFrom(anchor, PPQ, sorted_tempo_events, 2)
         IN IF ~r.ok THEN r ELSE retiming_tempo_events(r.tempos, PPQ)

overwrite_tempo_changes(list, PPQ, tempo_events) ==
    IF tempo_events = <<>> THEN Raised(list)
    ELSE LET sorted_tempo_events == StableSort(tempo_events, TicksOf(tempo_events))
             first_tempo_event == sorted_tempo_events[1]
             anchor == <<[ticks |-> 0, bpm |-> first_tempo_event.bpm, time |-> 0]>>
         IN IF first_tempo_event.ticks > 0 THEN Raised(list)
            ELSE LET r == OverwriteFrom(anchor, PPQ, sorted_tempo_events, 2)
                 IN IF ~r.ok THEN r ELSE retiming_tempo_events(r.tempos, PPQ)

\* ----------------------------------------------------------- the song
NewSongTempos == <<[ticks |-> 0, bpm |-> DefaultBpm, time |-> 0]>>

NewSongTimeSignatures ==
    <<[ticks |-> 0, numerator |-> DefaultNumerator, denominator |-> DefaultDenominator]>>

\* The last call: its name, its arguments (index i, tick t, bpm or numerator
\* v, denominator d, type or track id ty, list of events evs where it is
\* kept), the
\* length n of the list it was called on, whether it returned (ok) or
\* raised, and the value r a query returned.
NoOp ==
    [name |-> "init", i |-> 0, t |-> 0, v |-> 0, d |-> 0, ty |-> "", evs |-> <<>>,
     n |-> 0, ok |-> TRUE, r |-> 0]

\* Song(): a new song.
Init ==
    /\ resolution = DefaultResolution
    /\ tempos = NewSongTempos
    /\ time_signatures = NewSongTimeSignatures
    /\ structures = <<>>
    /\ tracks = <<>>
    /\ op = NoOp

TempoStep(r, o) ==
    /\ tempos' = r.tempos
    /\ op' = [o EXCEPT !.ok = r.ok, !.n = Len(tempos)]
    /\ UNCHANGED <<resolution, time_signatures, structures, tracks>>

CreateTempoChange(ticks, bpm) ==
    /\ Len(tempos) < MaxLen
    /\ TempoStep(create_tempo_change(tempos, resolution, ticks, bpm),
                 [NoOp EXCEPT !.name = "create_tempo_change", !.t = ticks, !.v = bpm])

MoveTempo(tempo_index, move_to_tick) ==
    TempoStep(move_tempo(tempos, resolution, tempo_index, move_to_tick),
              [NoOp EXCEPT !.name = "move_tempo", !.i = tempo_index, !.t = move_to_tick])

RemoveTempoChangeAt(index) ==
    TempoStep(remove_tempo_change_at(tempos, resolution, index),
              [NoOp EXCEPT !.name = "remove_tempo_change_at", !.i = index])

OverwriteTempoChanges(tempo_events) ==
    TempoStep(overwrite_tempo_changes(tempos, resolution, tempo_events),
              [NoOp EXCEPT !.name = "overwrite_tempo_changes"])

\* overwrite_tempo_changes, its argument kept in op.
OverwriteTempoChangesKept(tempo_events) ==
    TempoStep(overwrite_tempo_changes(tempos, resolution, tempo_events),
              [NoOp EXCEPT !.name = "overwrite_tempo_changes", !.evs = tempo_events])

\* Lists of events at pairwise different ticks out of three, in any order.
OverwriteTicks == {0, 1, MaxTick}

DistinctTickLists ==
    UNION {{evs \in [1..n -> [ticks : OverwriteTicks, bpm : BPMs]] :
               \A a, b \in 1..n : a # b => evs[a].ticks # evs[b].ticks} :
           n \in 0..Cardinality(OverwriteTicks)}

NextOverwrite == \E tempo_events \in DistinctTickLists : OverwriteTempoChangesKept(tempo_events)

\* The lists handed to overwrite_tempo_changes: up to MaxInput events in any
\* order, no event twice (two events may still share their ticks).
TempoEventLists ==
    UNION {{evs \in [1..n -> TempoInputs] :
               \A a, b \in 1..n : a # b => evs[a] # evs[b]} : n \in 0..MaxInput}

Indexes == 0..MaxLen

NextTempo ==
    \/ \E ticks \in Ticks, bpm \in BPMs : CreateTempoChange(ticks, bpm)
    \/ \E tempo_index \in Indexes, move_to_tick \in Ticks : MoveTempo(tempo_index, move_to_tick)
    \/ \E index \in Indexes : RemoveTempoChangeAt(index)
    \/ \E tempo_events \in TempoEventLists : OverwriteTempoChanges(tempo_events)

\* ------------------------------------------------------ structure timeline
\* structure_to_tick_fn over a list of markers.
TickOf(list) == [k \in 1..Len(list) |-> list[k].tick]

get_structure_at_index(list, index) ==
    IF index < 0 \/ index >= Len(list) THEN -1 ELSE index

\* The 0-based index of the marker returned, -1 for None.
get_structure_at_tick(list, tick) ==
    LET found == lower_equal(TickOf(list), tick)
        clamped == IF found < 0 THEN 0 ELSE found
    IN IF clamped >= Len(list) THEN Len(list) - 1 ELSE clamped

\* Mutant: a sole marker keeps the tick it was created with.
create_structure_keeps_tick(list, tick, type) ==
    LET appended == Append(list, [tick |-> tick, type |-> type])
    IN StableSort(appended, TickOf(appended))

create_structure(list, tick, type) ==
    LET structure == [tick |-> tick, type |-> type]
        appended == Append(list, structure)
        anchored == IF Len(appended) = 1
                    THEN [appended EXCEPT ![Len(appended)].tick = 0]
                    ELSE appended
    IN StableSort(anchored, TickOf(anchored))

remove_structure(list, index) ==
    IF index < 0 \/ index >= Len(list) THEN list
    ELSE LET popped == DeleteAt(list, index)
             anchored == IF Len(popped) > 0 /\ popped[1].tick > 0
                         THEN [popped EXCEPT ![1].tick = 0]
                         ELSE popped
         IN StableSort(anchored, TickOf(anchored))

\* Mutant: a collision with the next marker is not looked for.
move_structure_prev_only(list, structure_index, move_to_tick) ==
    IF get_structure_at_index(list, structure_index) = -1 THEN list
    ELSE IF structure_index <= 0 THEN list
    ELSE LET held == [k \in 1..Len(list) |->
                        [tick |-> list[k].tick, type |-> list[k].type,
                         sel |-> (k = structure_index + 1)]]
             prev_structure == list[structure_index]
             merged == IF prev_structure.tick = move_to_tick
                       THEN remove_structure(held, structure_index - 1)
                       ELSE held
             moved == [k \in 1..Len(merged) |->
                         IF merged[k].sel THEN [merged[k] EXCEPT !.tick = move_to_tick]
                         ELSE merged[k]]
             sorted == StableSort(moved, TickOf(moved))
         IN [k \in 1..Len(sorted) |-> [tick |-> sorted[k].tick, type |-> sorted[k].type]]

\* `structure` wraps the list element fetched at structure_index; pop and
\* sort keep the elements themselves, so the wrapper follows its element
\* (field sel) through remove_structure.
move_structure(list, structure_index, move_to_tick) ==
    IF get_structure_at_index(list, structure_index) = -1 THEN list
    ELSE IF structure_index <= 0 THEN list
    ELSE LET held == [k \in 1..Len(list) |->
                        [tick |-> list[k].tick, type |-> list[k].type,
                         sel |-> (k = structure_index + 1)]]
             prev_structure == list[structure_index]
             has_next == structure_index < Len(list) - 1
             merged == IF prev_structure.tick = move_to_tick
                       THEN remove_structure(held, structure_index - 1)
                       ELSE IF has_next /\ list[structure_index + 2].tick = move_to_tick
                       THEN remove_structure(held, structure_index + 1)
                       ELSE held
             moved == [k \in 1..Len(merged) |->
                         IF merged[k].sel THEN [merged[k] EXCEPT !.tick = move_to_tick]
                         ELSE merged[k]]
             sorted == StableSort(moved, TickOf(moved))
         IN [k \in 1..Len(sorted) |-> [tick |-> sorted[k].tick, type |-> sorted[k].type]]

update_structure_at_tick(list, tick, type) ==
    LET existing_structure == get_structure_at_tick(list, tick)
    IN IF existing_structure # -1
       THEN [list EXCEPT ![existing_structure + 1].type = type]
       ELSE create_structure(list, tick, type)

StructureStep(list, o) ==
    /\ structures' = list
    /\ op' = [o EXCEPT !.n = Len(structures)]
    /\ UNCHANGED <<resolution, tempos, time_signatures, tracks>>

CreateStructure(tick, type) ==
    /\ Len(structures) < MaxStructures
    /\ StructureStep(create_structure(structures, tick, type),
                     [NoOp EXCEPT !.name = "create_structure", !.t = tick, !.ty = type])

MoveStructure(structure_index, move_to_tick) ==
    StructureStep(move_structure(structures, structure_index, move_to_tick),
                  [NoOp EXCEPT !.name = "move_structure", !.i = structure_index,
                               !.t = move_to_tick])

UpdateStructureAtTick(tick, type) ==
    StructureStep(update_structure_at_tick(structures, tick, type),
                  [NoOp EXCEPT !.name = "update_structure_at_tick", !.t = tick, !.ty = type])

RemoveStructure(index) ==
    StructureStep(remove_structure(structures, index),
                  [NoOp EXCEPT !.name = "remove_structure", !.i = index])

StructureIndexes == -1..MaxStructures

NextStructure ==
    \/ \E tick \in Ticks, type \in StructureTypes : CreateStructure(tick, type)
    \/ \E structure_index \in StructureIndexes, move_to_tick \in Ticks :
          MoveStructure(structure_index, move_to_tick)
    \/ \E tick \in Ticks, type \in StructureTypes : UpdateStructureAtTick(tick, type)
    \/ \E index \in StructureIndexes : RemoveStructure(index)

RetimingTempoEvents ==
    TempoStep(retiming_tempo_events(tempos, resolution),
              [NoOp EXCEPT !.name = "retiming_tempo_events"])

\* -------------------------------------------------- time-signature list
TimeSignatureTicksOf(list) == [k \in 1..Len(list) |-> list[k].ticks]

get_time_signature_event_count(list) == Len(list)

\* The 0-based index of the event returned; on an empty list the index is
\* -1 and the subscript raises (ok FALSE).
get_time_signature_event_at_tick(list, tick) ==
    LET found == lower_equal(TimeSignatureTicksOf(list), tick)
        index == IF found > 0 THEN found ELSE 0
        clamped == IF index >= Len(list) THEN Len(list) - 1 ELSE index
    IN [ok |-> clamped >= 0, index |-> clamped]

create_time_signature(list, ticks, numerator, denominator) ==
    LET time_signature_proto ==
            [ticks |-> ticks, numerator |-> numerator, denominator |-> denominator]
        insert_index == greater_equal(TimeSignatureTicksOf(list), ticks)
    IN IF insert_index < 0 THEN Append(list, time_signature_proto)
       ELSE InsertAt(list, insert_index, time_signature_proto)

\* The events are stored in the order given.
overwrite_time_signature_changes(list, events) ==
    IF Len(events) = 0 THEN [ok |-> FALSE, time_signatures |-> list]
    ELSE [ok |-> TRUE, time_signatures |-> events]

TimeSignatureStep(r, o) ==
    /\ time_signatures' = r.time_signatures
    /\ op' = [o EXCEPT !.ok = r.ok, !.n = Len(time_signatures)]
    /\ UNCHANGED <<resolution, tempos, structures, tracks>>

CreateTimeSignature(ticks, numerator, denominator) ==
    /\ Len(time_signatures) < MaxLen
    /\ TimeSignatureStep(
          [ok |-> TRUE,
           time_signatures |->
               create_time_signature(time_signatures, ticks, numerator, denominator)],
          [NoOp EXCEPT !.name = "create_time_signature", !.t = ticks,
                       !.v = numerator, !.d = denominator])

OverwriteTimeSignatureChanges(events) ==
    TimeSignatureStep(overwrite_time_signature_changes(time_signatures, events),
                      [NoOp EXCEPT !.name = "overwrite_time_signature_changes"])

\* The signatures used: the default one and one differing in both fields.
Meters ==
    {[numerator |-> DefaultNumerator, denominator |-> DefaultDenominator],
     [numerator |-> DefaultNumerator - 1, denominator |-> 2 * DefaultDenominator]}

TimeSignatureInputs ==
    {[ticks |-> ticks, numerator |-> m.numerator, denominator |-> m.denominator] :
        ticks \in InputTicks, m \in Meters}

\* The lists handed to overwrite_time_signature_changes: any order, no
\* event twice.
TimeSignatureEventLists ==
    UNION {{evs \in [1..n -> TimeSignatureInputs] :
               \A a, b \in 1..n : a # b => evs[a] # evs[b]} : n \in 0..MaxInput}

NextTimeSignature ==
    \/ \E ticks \in Ticks, m \in Meters :
          CreateTimeSignature(ticks, m.numerator, m.denominator)
    \/ \E events \in TimeSignatureEventLists : OverwriteTimeSignatureChanges(events)

\* ------------------------------------------------------------- track list
\* A track: its uuid, its output (type NONE: no output; TRACK: the track
\* track_id; DEVICE: an output that is not a track), its volume and pan
\* (UNSET, DEFAULT, or a controller value) and the points of its volume and
\* pan automation.
NoOutput == [type |-> "NONE", track_id |-> ""]

Unset == [set |-> "UNSET", value |-> 0]

\* db_to_volume_value(0.0), a value of tuneflow_py.utils that the model
\* keeps by name.
DefaultVolume == [set |-> "DEFAULT", value |-> 0]

\* Track.remove_output is not part of the sources: it leaves the track
\* without an output.
remove_output(track) == [track EXCEPT !.output = NoOutput]

get_track_count(list) == Len(list)

\* The 0-based index of the first track with the id, -1 for None.
get_track_by_id(list, track_id) ==
    IF \A k \in 1..Len(list) : list[k].id # track_id THEN -1
    ELSE (CHOOSE k \in 1..Len(list) :
             /\ list[k].id = track_id
             /\ \A j \in 1..(k - 1) : list[j].id # track_id) - 1

\* Mutant: the outputs to the removed track are left in place.
remove_track_keeping_outputs(list, track_id) ==
    LET track == get_track_by_id(list, track_id)
    IN IF track = -1 THEN [v |-> -1, tracks |-> list]
       ELSE [v |-> track, tracks |-> SelectSeq(list, LAMBDA t : t.id # track_id)]

\* v: the 0-based index the returned track had, -1 for None.
remove_track(list, track_id) ==
    LET track == get_track_by_id(list, track_id)
    IN IF track = -1 THEN [v |-> -1, tracks |-> list]
       ELSE LET kept == SelectSeq(list, LAMBDA t : t.id # track_id)
            IN [v |-> track,
                tracks |->
                    [k \in 1..Len(kept) |->
                        IF /\ kept[k].output.type # "NONE"
                           /\ kept[k].output.type = "TRACK"
                           /\ kept[k].output.track_id = track_id
                        THEN remove_output(kept[k])
                        ELSE kept[k]]]

RemoveTrack(track_id) ==
    LET r == remove_track(tracks, track_id)
    IN /\ tracks' = r.tracks
       /\ op' = [NoOp EXCEPT !.name = "remove_track", !.ty = track_id, !.r = r.v,
                              !.n = Len(tracks)]
       /\ UNCHANGED <<resolution, tempos, time_signatures, structures>>

TrackIds == {"a", "b", "c"}

Outputs ==
    {NoOutput} \cup [type : {"TRACK"}, track_id : TrackIds]
               \cup {[type |-> "DEVICE", track_id |-> "a"]}

\* The track lists of a deserialized song: up to MaxTracks tracks, ids and
\* outputs of any kind (an id may occur twice, an output may name a track
\* that is not there).
TrackLists ==
    UNION {[1..n -> [id : TrackIds, output : Outputs, volume : {DefaultVolume},
                     pan : {Unset}, volume_points : {<<>>}, pan_points : {<<>>}]] :
              n \in 0..MaxTracks}

InitTracks ==
    /\ resolution = DefaultResolution
    /\ tempos = NewSongTempos
    /\ time_signatures = NewSongTimeSignatures
    /\ structures = <<>>
    /\ tracks \in TrackLists
    /\ op = NoOp

NextTracks == \E track_id \in TrackIds : RemoveTrack(track_id)

\* ------------------------------------------------------ import from MIDI
\* scale_int_by with the factor num / den: Python's round() of the product.
scale_int_by(value, num, den) == RoundHalfEven(value * num, den)

\* Track._generate_track_id(): a fresh id for each track, here the ids of
\* TrackIds in a fixed order.
GeneratedTrackIds == <<"a", "b", "c">>

\* The points of an automation curve: the controller events sorted by time,
\* the tick rescaled, the ids counting from 1.  The value stands for
\* value / 127.
AutomationPoints(ccs, PPQ, ticks_per_beat) ==
    LET sorted_ccs == StableSort(ccs, [k \in 1..Len(ccs) |-> ccs[k].time])
    IN [index \in 1..Len(sorted_ccs) |->
           [tick |-> scale_int_by(sorted_ccs[index].time, PPQ, ticks_per_beat),
            value |-> sorted_ccs[index].value,
            id |-> index]]

\* Mutant: the points are added in the order of the controller events.
TrackFromInstrument_unsorted(instrument, index, PPQ, ticks_per_beat) ==
    LET volume_ccs == SelectSeq(instrument.control_changes, LAMBDA cc : cc.number = 7)
        pan_ccs == SelectSeq(instrument.control_changes, LAMBDA cc : cc.number = 10)
        points(ccs) == [k \in 1..Len(ccs) |->
                           [tick |-> scale_int_by(ccs[k].time, PPQ, ticks_per_beat),
                            value |-> ccs[k].value, id |-> k]]
    IN [id |-> GeneratedTrackIds[index],
        output |-> NoOutput,
        volume |-> IF Len(volume_ccs) = 1
                   THEN [set |-> "CC", value |-> volume_ccs[1].value]
                   ELSE IF Len(volume_ccs) > 1 THEN Unset ELSE DefaultVolume,
        volume_points |-> IF Len(volume_ccs) > 1 THEN points(volume_ccs) ELSE <<>>,
        pan |-> IF Len(pan_ccs) = 1
                THEN [set |-> "CC", value |-> pan_ccs[1].value - 64]
                ELSE Unset,
        pan_points |-> IF Len(pan_ccs) > 1 THEN points(pan_ccs) ELSE <<>>]

\* The track made of one instrument (index is 1-based here).  A volume set
\* from one controller event stands for value / 127; notes and the clip are
\* not kept.
TrackFromInstrument(instrument, index, PPQ, ticks_per_beat) ==
    LET volume_ccs == SelectSeq(instrument.control_changes, LAMBDA cc : cc.number = 7)
        pan_ccs == SelectSeq(instrument.control_changes, LAMBDA cc : cc.number = 10)
    IN [id |-> GeneratedTrackIds[index],
        output |-> NoOutput,
        volume |-> IF Len(volume_ccs) = 1
                   THEN [set |-> "CC", value |-> volume_ccs[1].value]
                   ELSE IF Len(volume_ccs) > 1 THEN Unset ELSE DefaultVolume,
        volume_points |-> IF Len(volume_ccs) > 1
                          THEN AutomationPoints(volume_ccs, PPQ, ticks_per_beat)
                          ELSE <<>>,
        pan |-> IF Len(pan_ccs) = 1
                THEN [set |-> "CC", value |-> pan_ccs[1].value - 64]
                ELSE Unset,
        pan_points |-> IF Len(pan_ccs) > 1
                       THEN AutomationPoints(pan_ccs, PPQ, ticks_per_beat)
                       ELSE <<>>]

\* The song after the tempo events t and the time-signature events ts were
\* loaded (song.py 223-289).  ok = FALSE: overwrite_tempo_changes or
\* overwrite_time_signature_changes raised, or min() was taken over the
\* notes of an instrument without notes.
SongWithTracks(t, ts, midi_obj, PPQ) ==
    [ok |-> /\ t.ok
            /\ ts.ok
            /\ \A k \in 1..Len(midi_obj.instruments) :
                  Len(midi_obj.instruments[k].notes) > 0,
     resolution |-> PPQ,
     tempos |-> t.tempos,
     time_signatures |-> ts.time_signatures,
     tracks |-> [k \in 1..Len(midi_obj.instruments) |->
                    TrackFromInstrument(midi_obj.instruments[k], k, PPQ,
                                        midi_obj.ticks_per_beat)]]

from_midi(midi_obj) ==
    LET PPQ == DefaultResolution
        tempo_events ==
            [k \in 1..Len(midi_obj.tempo_changes) |->
                [ticks |-> scale_int_by(midi_obj.tempo_changes[k].time, PPQ,
                                        midi_obj.ticks_per_beat),
                 bpm |-> midi_obj.tempo_changes[k].tempo]]
        time_signature_events ==
            [k \in 1..Len(midi_obj.time_signature_changes) |->
                [ticks |-> scale_int_by(midi_obj.time_signature_changes[k].time, PPQ,
                                        midi_obj.ticks_per_beat),
                 numerator |-> midi_obj.time_signature_changes[k].numerator,
                 denominator |-> midi_obj.time_signature_changes[k].denominator]]
    IN SongWithTracks(overwrite_tempo_changes(NewSongTempos, PPQ, tempo_events),
                      overwrite_time_signature_changes(NewSongTimeSignatures,
                                                       time_signature_events),
                      midi_obj, DefaultResolution)

\* The song becomes the song a call returned; a call that raises returns no
\* song.
MidiStep(song, midi_obj) ==
    /\ op' = [NoOp EXCEPT !.name = "from_midi", !.evs = midi_obj, !.ok = song.ok]
    /\ IF song.ok
       THEN /\ resolution' = song.resolution
            /\ tempos' = song.tempos
            /\ time_signatures' = song.time_signatures
            /\ tracks' = song.tracks
            /\ structures' = <<>>
       ELSE UNCHANGED <<resolution, tempos, time_signatures, structures, tracks>>

\* from_midi is static: it reads nothing of an existing song and returns a
\* new one.
FromMidi(midi_obj) == MidiStep(from_midi(midi_obj), midi_obj)

\* The controller events of the MIDI files: volume (7) at three times, pan
\* (10) at two, and a controller that is neither.
ControlChanges ==
    {[number |-> 7, time |-> 3, value |-> 127],
     [number |-> 7, time |-> 1, value |-> 64],
     [number |-> 7, time |-> 0, value |-> 0],
     [number |-> 10, time |-> 3, value |-> 127],
     [number |-> 10, time |-> 1, value |-> 0],
     [number |-> 1, time |-> 0, value |-> 64]}

\* A MIDI file of n instruments at twice the song's resolution: ccs are its
\* controller events in file order, each with its instrument; every
\* instrument has a note, except the last one when noteless.
MidiFileOf(n, ccs, noteless) ==
    [ticks_per_beat |-> 2 * DefaultResolution,
     tempo_changes |-> <<[time |-> 0, tempo |-> DefaultBpm]>>,
     time_signature_changes |->
         <<[time |-> 0, numerator |-> DefaultNumerator, denominator |-> DefaultDenominator]>>,
     instruments |->
         [i \in 1..n |->
             [notes |-> IF noteless /\ i = n THEN <<>> ELSE <<[start |-> 0, end |-> 1]>>,
              control_changes |->
                  LET own == SelectSeq(ccs, LAMBDA c : c.instrument = i)
                  IN [k \in 1..Len(own) |-> own[k].cc]]]]

\* The controller events of a file of n instruments, in file order, each with
\* its instrument.
TaggedControlChanges(n) ==
    UNION {[1..m -> [instrument : 1..n, cc : ControlChanges]] : m \in 0..MaxCC}

\* from_midi is called once, with any of the MIDI files.
NextMidi ==
    /\ op.name = "init"
    /\ \E n \in 1..MaxInstruments, noteless \in BOOLEAN :
          \E ccs \in TaggedControlChanges(n) : FromMidi(MidiFileOf(n, ccs, noteless))

\* ------------------------------------------------------------ conversion
\* A query leaves the song as it is; its argument and its result are kept
\* in op (t and r; seconds count 1/SecondsDen seconds).
QueryStep(r, o) ==
    /\ op' = [o EXCEPT !.ok = r.ok, !.r = r.v, !.n = Len(tempos)]
    /\ UNCHANGED <<resolution, tempos, time_signatures, structures, tracks>>

TickToSeconds(tick) ==
    QueryStep(tick_to_seconds(tempos, resolution, tick),
              [NoOp EXCEPT !.name = "tick_to_seconds", !.t = tick])

SecondsToTick(seconds) ==
    QueryStep(seconds_to_tick(tempos, resolution, seconds),
              [NoOp EXCEPT !.name = "seconds_to_tick", !.t = seconds])

\* Ticks at whole beats of the default resolution, and the seconds they can
\* lie at: multiples of half a second.
BeatTicks ==
    {0, DefaultResolution, 2 * DefaultResolution, 3 * DefaultResolution,
     4 * DefaultResolution}

HalfSeconds == {(k * SecondsDen) \div 2 : k \in 0..(2 * Cardinality(BeatTicks))}

NextConversion ==
    \/ \E ticks \in BeatTicks, bpm \in BPMs : CreateTempoChange(ticks, bpm)
    \/ \E index \in Indexes : RemoveTempoChangeAt(index)
    \/ \E tick \in BeatTicks : TickToSeconds(tick)
    \/ \E seconds \in HalfSeconds : SecondsToTick(seconds)

\* --------------------------------------------------------- specifications
\* A new song edited through the tempo operations.
Next == NextTempo

Spec == Init /\ [][Next]_vars

\* Song(proto): a deserialized song, whose PPQ may be unset (0) and whose
\* tempo list may be empty, edited through the tempo operations.
ProtoResolutions == {0, DefaultResolution}

InitProto ==
    /\ resolution \in ProtoResolutions
    /\ tempos \in {<<>>, NewSongTempos}
    /\ time_signatures = NewSongTimeSignatures
    /\ structures = <<>>
    /\ tracks = <<>>
    /\ op = NoOp

SpecProto == InitProto /\ [][NextTempo]_vars

\* A new song edited through the structure operations.
SpecStructure == Init /\ [][NextStructure]_vars

\* A new song edited through the tempo operations, retiming_tempo_events
\* being called from outside as well.
NextRetiming == NextTempo \/ RetimingTempoEvents

SpecRetiming == Init /\ [][NextRetiming]_vars

\* A new song to which tempo events are added and from which they are
\* removed, the index being any integer near the list's range.  Once the
\* event at tick 0 is gone the times are no longer tied to the ticks and
\* drift up or down; the song is followed while they stay within MaxTime
\* units of 0.
AnyIndexes == (0 - MaxLen - 1)..(MaxLen + 1)

TimesWithinMaxTime ==
    \A k \in 1..Len(tempos) : 0 - MaxTime <= tempos[k].time /\ tempos[k].time <= MaxTime

NextRemove ==
    \/ /\ TimesWithinMaxTime
       /\ \E ticks \in Ticks, bpm \in BPMs : CreateTempoChange(ticks, bpm)
    \/ /\ TimesWithinMaxTime
       /\ \E index \in AnyIndexes : RemoveTempoChangeAt(index)

SpecRemove == Init /\ [][NextRemove]_vars

\* Song(proto): a deserialized song from which tracks are removed.
SpecTracks == InitTracks /\ [][NextTracks]_vars

\* Songs imported from MIDI files.
SpecMidi == Init /\ [][NextMidi]_vars

\* A new song whose tempo list is overwritten again and again.
SpecOverwrite == Init /\ [][NextOverwrite]_vars

\* A new song whose tempo list is edited at whole beats and whose
\* conversion between ticks and seconds is queried.
SpecConversion == Init /\ [][NextConversion]_vars

\* A new song edited through the time-signature operations.
SpecTimeSignature == Init /\ [][NextTimeSignature]_vars

\* ---------------------------------------------------------------- claims
\* In the action formulas the unprimed lists are those before the call op'
\* and the primed lists those after it.
StrictlyAscending(list) == \A i \in 1..(Len(list) - 1) : list[i].ticks < list[i + 1].ticks

StructuresStrictlyAscending(list) ==
    \A i \in 1..(Len(list) - 1) : list[i].tick < list[i + 1].tick

AtTicks(list, tick) == {k \in 1..Len(list) : list[k].ticks = tick}
AtTick(list, tick) == {k \in 1..Len(list) : list[k].tick = tick}

\* C1: after any sequence of tempo operations on a new song the tempo list
\* is strictly ascending by ticks (no two events share their ticks).
\* Stated as claimed; create_tempo_change at an occupied tick refutes it.
C1_TempoStrictlyAscending == StrictlyAscending(tempos)

\* C2: after any sequence of tempo operations on a new song, with
\* non-negative ticks and indexes, the tempo list is non-empty and its first
\* event is at tick 0.
C2_TempoAnchoredAtZero == Len(tempos) >= 1 /\ tempos[1].ticks = 0

C2_Witness ==
    /\ op.name = "remove_tempo_change_at"
    /\ op.ok
    /\ op.n = 3
    /\ Len(tempos) = 2
    /\ tempos[2].ticks > 0

\* Seconds from tick 0 to the k-th event: the sum over the segments before
\* it of (ticks spanned) / (bpm * PPQ / 60).
RECURSIVE Elapsed(_, _, _)
Elapsed(list, PPQ, k) ==
    IF k <= 1 THEN 0
    ELSE Elapsed(list, PPQ, k - 1)
         + ((list[k].ticks - list[k - 1].ticks) * 60 * SecondsDen)
             \div (list[k - 1].bpm * PPQ)

C4_CreateReplacesAtSameTick ==
    [][(op'.name = "create_tempo_change" /\ op'.ok /\ AtTicks(tempos, op'.t) # {}) =>
        /\ Len(tempos') = Len(tempos)
        /\ Cardinality(AtTicks(tempos', op'.t)) = 1
        /\ \A k \in AtTicks(tempos', op'.t) : tempos'[k].bpm = op'.v
        /\ tempos'[get_tempo_event_at_tick(tempos', op'.t) + 1].bpm = op'.v]_vars

\* C5: an overwrite_tempo_changes that raises leaves the tempo list as it
\* was before the call.
\* Stated as claimed; a nested create_tempo_change that raises refutes it.
C5_RejectedOverwriteChangesNothing ==
    [][(op'.name = "overwrite_tempo_changes" /\ ~op'.ok) => tempos' = tempos]_vars

\* C6: remove_tempo_change_at raises when index = 0 and when the list holds
\* a single event, and leaves the tempo list unchanged in both cases.
C6_RemoveAnchorOrLastFails ==
    [][(op'.name = "remove_tempo_change_at" /\ (op'.i = 0 \/ Len(tempos) = 1)) =>
        (~op'.ok /\ tempos' = tempos)]_vars

C6_Witness ==
    /\ op.name = "remove_tempo_change_at"
    /\ op.i = 0
    /\ op.n >= 2
    /\ ~op.ok

\* C7: on a strictly sorted tempo list, move_tempo(i, t) with 1 <= i < count
\* and t the ticks of the event at i-1 or i+1 returns without error, deletes
\* that neighbour and leaves exactly one event at t, with the moved event's
\* bpm; the count drops by one.
\* Stated as claimed; the neighbour at index 0 cannot be removed.
C7_MoveTempoOntoNeighbour ==
    [][(/\ op'.name = "move_tempo"
        /\ StrictlyAscending(tempos)
        /\ 1 <= op'.i /\ op'.i < Len(tempos)
        /\ \/ op'.t = tempos[op'.i].ticks
           \/ op'.i + 2 <= Len(tempos) /\ op'.t = tempos[op'.i + 2].ticks) =>
        /\ op'.ok
        /\ Len(tempos') = Len(tempos) - 1
        /\ Cardinality(AtTicks(tempos', op'.t)) = 1
        /\ \A k \in AtTicks(tempos', op'.t) : tempos'[k].bpm = tempos[op'.i + 1].bpm]_vars

\* C8: on a strictly sorted structure list anchored at tick 0,
\* move_structure(i, t) with 1 <= i < count and t the tick of the marker at
\* i-1 or i+1 deletes that neighbour and leaves exactly one marker at t, with
\* the moved marker's type; the count drops by one (the other markers stay).
C8_MoveStructureOntoNeighbour ==
    [][(/\ op'.name = "move_structure"
        /\ StructuresStrictlyAscending(structures)
        /\ Len(structures) >= 1
        /\ structures[1].tick = 0
        /\ 1 <= op'.i /\ op'.i < Len(structures)
        /\ \/ op'.t = structures[op'.i].tick
           \/ op'.i + 2 <= Len(structures) /\ op'.t = structures[op'.i + 2].tick) =>
        /\ Len(structures') = Len(structures) - 1
        /\ Cardinality(AtTick(structures', op'.t)) = 1
        /\ \A k \in AtTick(structures', op'.t) :
              structures'[k].type = structures[op'.i + 1].type
        /\ \A k \in 1..Len(structures) :
              (k # op'.i + 1 /\ structures[k].tick # op'.t) =>
                  \E m \in 1..Len(structures') : structures'[m] = structures[k]]_vars

\* move_structure(i, t) has merged the marker at i with its next neighbour.
C8_Witness ==
    /\ op.name = "move_structure"
    /\ StructuresStrictlyAscending(structures)
    /\ op.n = 3
    /\ op.i = 1
    /\ Len(structures) = 2
    /\ structures[1].tick = 0
    /\ structures[2].tick = op.t

\* C9: after any sequence of structure operations on a new song the
\* structure list is empty or its first marker is at tick 0; create_structure
\* on an empty list stores the marker at tick 0 whatever tick was asked for,
\* and remove_structure of the first marker moves the new first marker to 0.
C9_StructuresAnchoredAtZero ==
    [][/\ structures' = <<>> \/ structures'[1].tick = 0
       /\ (op'.name = "create_structure" /\ structures = <<>>) =>
             structures' = <<[tick |-> 0, type |-> op'.ty]>>
       /\ (op'.name = "remove_structure" /\ op'.i = 0 /\ Len(structures) >= 2) =>
             /\ Len(structures') = Len(structures) - 1
             /\ structures'[1] = [structures[2] EXCEPT !.tick = 0]]_vars

C9_Witness ==
    /\ op.name = "create_structure"
    /\ op.n = 0
    /\ op.t > 0
    /\ Len(structures) = 1
    /\ structures[1].tick = 0

\* C10: after any sequence of structure operations on a new song the
\* structure list is strictly ascending by tick (no two markers share a tick).
\* Stated as claimed; create_structure at an occupied tick refutes it.
C10_StructuresStrictlyAscending == StructuresStrictlyAscending(structures)

TimeSignaturesAt(list, tick) == {k \in 1..Len(list) : list[k].ticks = tick}

\* C11: update_structure_at_tick(tick, type) is an upsert keyed on the exact
\* tick: when a marker stands at that tick only that marker's type changes
\* and the count stays; when none does, every marker stays as it was and a
\* new marker of the given type is created, the count growing by one.
\* Stated as claimed; get_structure_at_tick returns the marker at or before
\* the tick, so an earlier marker is retyped and nothing is created.
C11_UpdateIsUpsertOnExactTick ==
    [][(op'.name = "update_structure_at_tick") =>
        IF AtTick(structures, op'.t) # {}
        THEN \E k \in AtTick(structures, op'.t) :
                structures' = [structures EXCEPT ![k].type = op'.ty]
        ELSE /\ Len(structures') = Len(structures) + 1
             /\ \A k \in 1..Len(structures) :
                   \E m \in 1..Len(structures') : structures'[m] = structures[k]
             /\ \E m \in 1..Len(structures') :
                   structures'[m] = [tick |-> IF structures = <<>> THEN 0 ELSE op'.t,
                                     type |-> op'.ty]]_vars

\* C12: after any sequence of create_time_signature and
\* overwrite_time_signature_changes calls on a new song, with non-negative
\* ticks, the time-signature list is non-empty and strictly ascending by
\* ticks (no two events share their ticks).
\* Stated as claimed; create_time_signature at an occupied tick and an
\* overwrite with unordered events refute it.
C12_TimeSignaturesStrictlyAscending ==
    /\ Len(time_signatures) >= 1
    /\ \A i \in 1..(Len(time_signatures) - 1) :
          time_signatures[i].ticks < time_signatures[i + 1].ticks

\* C13: create_time_signature at a tick that already holds an event
\* overwrites that event: same count, one event at the tick, and
\* get_time_signature_event_at_tick returns the new numerator and
\* denominator.
\* Stated as claimed; the code inserts in front of the old event.
C13_CreateTimeSignatureOverwrites ==
    [][(/\ op'.name = "create_time_signature"
        /\ TimeSignaturesAt(time_signatures, op'.t) # {}) =>
        /\ Len(time_signatures') = Len(time_signatures)
        /\ Cardinality(TimeSignaturesAt(time_signatures', op'.t)) = 1
        /\ LET at == get_time_signature_event_at_tick(time_signatures', op'.t)
           IN /\ at.ok
              /\ time_signatures'[at.index + 1].numerator = op'.v
              /\ time_signatures'[at.index + 1].denominator = op'.d]_vars

\* A valid tempo list: non-empty, strictly ascending by ticks, anchored at
\* tick 0, positive bpm, every time the elapsed time, resolution > 0.
ValidTempoList(list, PPQ) ==
    /\ PPQ > 0
    /\ Len(list) >= 1
    /\ list[1].ticks = 0
    /\ StrictlyAscending(list)
    /\ \A k \in 1..Len(list) : list[k].bpm > 0 /\ list[k].time = Elapsed(list, PPQ, k)

\* C14: on a valid tempo list tick_to_seconds(0) is 0 and tick_to_seconds
\* is monotonically non-decreasing: of two queries in a row, the one with
\* the larger tick does not return the smaller time.
C14_TickToSecondsMonotone ==
    [][(op'.name = "tick_to_seconds" /\ ValidTempoList(tempos, resolution)) =>
        /\ op'.ok
        /\ op'.t = 0 => op'.r = 0
        /\ (op.name = "tick_to_seconds" /\ op.t <= op'.t) => op.r <= op'.r
        /\ (op.name = "tick_to_seconds" /\ op.t >= op'.t) => op.r >= op'.r]_vars

\* A query beyond the last of three events, the tempo changing twice.
C14_Witness ==
    /\ op.name = "tick_to_seconds"
    /\ ValidTempoList(tempos, resolution)
    /\ Len(tempos) = 3
    /\ tempos[1].bpm # tempos[2].bpm
    /\ tempos[2].bpm # tempos[3].bpm
    /\ op.t > tempos[3].ticks
    /\ op.r > tempos[3].time

\* C15: on a valid tempo list seconds_to_tick(tick_to_seconds(t)) is t for
\* every t that is the ticks of an event, and differs from t by at most one
\* tick for every other t >= 0.
C15_RoundTrip ==
    [][(/\ op.name = "tick_to_seconds"
        /\ op.ok
        /\ op'.name = "seconds_to_tick"
        /\ op'.t = op.r
        /\ ValidTempoList(tempos, resolution)) =>
        /\ op'.ok
        /\ IF AtTicks(tempos, op.t) # {}
           THEN op'.r = op.t
           ELSE op'.r - op.t \in {-1, 0, 1}]_vars

\* seconds_to_tick was handed the time of the third event, after a slow and
\* a fast segment, and returned its ticks.
C15_Witness ==
    /\ op.name = "seconds_to_tick"
    /\ op.ok
    /\ ValidTempoList(tempos, resolution)
    /\ Len(tempos) = 3
    /\ tempos[1].bpm # tempos[2].bpm
    /\ op.r = tempos[3].ticks
    /\ op.t = tick_to_seconds(tempos, resolution, op.r).v

\* C16 as claimed: with resolution 480 and the tempo list [(0, 120 bpm)],
\* tick_to_seconds(480) is 1.0 second.
C16_OneBeatIsOneSecond ==
    [][(/\ op'.name = "tick_to_seconds"
        /\ resolution = DefaultResolution
        /\ tempos = NewSongTempos
        /\ op'.t = DefaultResolution) => (op'.ok /\ op'.r = SecondsDen)]_vars

\* C16 amended: with resolution 480 and the tempo list [(0, 120 bpm)],
\* tick_to_seconds(480) is 0.5 second (480 ticks at 120 * 480 / 60 = 960
\* ticks per second) and tick_to_seconds(960) is 1.0 second.
C16_OneBeatIsHalfASecond ==
    [][(/\ op'.name = "tick_to_seconds"
        /\ resolution = DefaultResolution
        /\ tempos = NewSongTempos) =>
        /\ op'.t = DefaultResolution => (op'.ok /\ 2 * op'.r = SecondsDen)
        /\ op'.t = 2 * DefaultResolution => (op'.ok /\ op'.r = SecondsDen)]_vars

C16_Witness ==
    /\ op.name = "tick_to_seconds"
    /\ op.ok
    /\ resolution = DefaultResolution
    /\ tempos = NewSongTempos
    /\ op.t = DefaultResolution
    /\ 2 * op.r = SecondsDen

\* The tempo list of the example after create_tempo_change(960, 60).
SlowAfterTwoBeats ==
    <<[ticks |-> 0, bpm |-> DefaultBpm, time |-> 0],
      [ticks |-> 2 * DefaultResolution, bpm |-> 60, time |-> SecondsDen]>>

\* C17: with resolution 480 and the tempo list [(0, 120 bpm)],
\* create_tempo_change(ticks = 960, bpm = 60) adds an event whose time is
\* 1.0 second, and tick_to_seconds(1920) is then 3.0 seconds.
C17_SecondSegment ==
    [][/\ (/\ op'.name = "create_tempo_change"
           /\ resolution = DefaultResolution
           /\ tempos = NewSongTempos
           /\ op'.t = 2 * DefaultResolution
           /\ op'.v = 60) => (op'.ok /\ tempos' = SlowAfterTwoBeats)
       /\ (/\ op'.name = "tick_to_seconds"
           /\ resolution = DefaultResolution
           /\ tempos = SlowAfterTwoBeats
           /\ op'.t = 4 * DefaultResolution) => (op'.ok /\ op'.r = 3 * SecondsDen)]_vars

C17_Witness ==
    /\ op.name = "tick_to_seconds"
    /\ op.ok
    /\ resolution = DefaultResolution
    /\ tempos = SlowAfterTwoBeats
    /\ op.t = 4 * DefaultResolution
    /\ op.r = 3 * SecondsDen

\* The 0-based indexes a lookup at tick may return by the claim: that of the
\* rightmost event with ticks <= tick, and 0 when tick precedes the first
\* event.
FloorOrFirst(keys, tick) ==
    LET hit == {k \in 1..Len(keys) : keys[k] <= tick}
    IN {k - 1 : k \in {j \in hit : \A m \in hit : m <= j}}
       \cup (IF tick < keys[1] THEN {0} ELSE {})

\* C18: on a non-empty list the lookups do not raise: get_tempo_event_at
\* returns None for an index < 0 or >= count and the event at the index
\* otherwise; get_tempo_event_at_tick and get_time_signature_event_at_tick
\* return the rightmost event with ticks <= tick, or the event at index 0
\* when tick precedes the first event.
\* Stated as claimed; on a time-signature list that is not sorted the
\* search of get_time_signature_event_at_tick misses the rightmost event.
C18_LookupsClampAndFloor ==
    /\ Len(tempos) >= 1 =>
          /\ \A index \in -1..(MaxLen + 1) :
                get_tempo_event_at(tempos, index) =
                    (IF 0 <= index /\ index < Len(tempos) THEN index ELSE -1)
          /\ \A tick \in Ticks :
                get_tempo_event_at_tick(tempos, tick) \in FloorOrFirst(TicksOf(tempos), tick)
    /\ Len(time_signatures) >= 1 =>
          \A tick \in Ticks :
             LET at == get_time_signature_event_at_tick(time_signatures, tick)
             IN /\ at.ok
                /\ at.index \in FloorOrFirst(TimeSignatureTicksOf(time_signatures), tick)

\* C19: create_tempo_change raises when the resolution is <= 0, and when
\* the tempo list is empty and ticks is not 0, leaving the tempo list as it
\* was; on an empty list with resolution > 0 and ticks = 0 it returns and
\* the list becomes the single event (ticks 0, the given bpm, time 0).
C19_CreateTempoChangePreconditions ==
    [][(op'.name = "create_tempo_change") =>
        /\ (resolution <= 0 \/ (Len(tempos) = 0 /\ op'.t # 0)) =>
              (~op'.ok /\ tempos' = tempos)
        /\ (resolution > 0 /\ Len(tempos) = 0 /\ op'.t = 0) =>
              /\ op'.ok
              /\ tempos' = <<[ticks |-> 0, bpm |-> op'.v, time |-> 0]>>]_vars

\* create_tempo_change at a tick other than 0 was refused on an empty list.
C19_Witness ==
    /\ op.name = "create_tempo_change"
    /\ ~op.ok
    /\ op.n = 0
    /\ op.t # 0
    /\ resolution > 0
    /\ tempos = <<>>

\* Tempo lists as a deserialized song may hold them: any order, any ticks
\* twice, times that are not the elapsed time.
StaleTempoLists ==
    UNION {[1..n -> [ticks : InputTicks, bpm : BPMs, time : {0, SecondsDen}]] :
              n \in 0..MaxStale}

RetimingTwiceIsOnce ==
    \A list \in StaleTempoLists :
       LET once == retiming_tempo_events(list, DefaultResolution)
       IN retiming_tempo_events(once.tempos, DefaultResolution) = once

\* C20: retiming_tempo_events run from any tempo list twice gives the list
\* it gives run once, and run right after any create_tempo_change,
\* move_tempo, remove_tempo_change_at or overwrite_tempo_changes on a song
\* that began as a new song (or after itself) it changes nothing: not the
\* order of the list, not any event's ticks, bpm or time.
C20_RetimingIdempotent ==
    [][/\ RetimingTwiceIsOnce
       /\ (op'.name = "retiming_tempo_events") => (op'.ok /\ tempos' = tempos)]_vars

\* retiming_tempo_events has run on three events, two of them sharing their
\* ticks.
C20_Witness ==
    /\ op.name = "retiming_tempo_events"
    /\ op.ok
    /\ Len(tempos) = 3
    /\ tempos[2].ticks = tempos[3].ticks
    /\ tempos[2].bpm # tempos[3].bpm
    /\ tempos[3].time > 0

\* The (ticks, bpm) pairs of a tempo list, in its order.
PairsOf(list) == [k \in 1..Len(list) |-> [ticks |-> list[k].ticks, bpm |-> list[k].bpm]]

\* Events at pairwise different ticks in ascending order of ticks: the k-th
\* is the one with k - 1 events at smaller ticks.
Ascending(evs) ==
    [k \in 1..Len(evs) |->
        evs[CHOOSE a \in 1..Len(evs) :
               Cardinality({b \in 1..Len(evs) : evs[b].ticks < evs[a].ticks}) = k - 1]]

\* C21: after an overwrite_tempo_changes that returned, with resolution > 0
\* and input events at pairwise different ticks, the (ticks, bpm) pairs of
\* the tempo list are the input events in ascending order of ticks, whatever
\* the list held before and in whatever order the events were given; the
\* event at tick 0 has the bpm of the earliest input event.
C21_OverwriteGivesSortedInput ==
    [][(/\ op'.name = "overwrite_tempo_changes"
        /\ op'.ok
        /\ resolution > 0
        /\ \A a, b \in 1..Len(op'.evs) :
              a # b => op'.evs[a].ticks # op'.evs[b].ticks) =>
        /\ PairsOf(tempos') = PairsOf(Ascending(op'.evs))
        /\ tempos'[1].ticks = 0
        /\ tempos'[1].bpm = Ascending(op'.evs)[1].bpm]_vars

\* Three events given in descending order replaced a list of two.
C21_Witness ==
    /\ op.name = "overwrite_tempo_changes"
    /\ op.ok
    /\ op.n = 2
    /\ Len(op.evs) = 3
    /\ op.evs[1].ticks > op.evs[2].ticks
    /\ op.evs[2].ticks > op.evs[3].ticks
    /\ op.evs[1].bpm # op.evs[3].bpm
    /\ Len(tempos) = 3

\* C22: no remove_tempo_change_at, whatever integer its index (zero,
\* positive, out of range or negative), removes the event at position 0 of
\* the tempo list: after the call position 0 holds the same ticks and bpm.
\* Stated as claimed; pop(index) with index = -count removes position 0.
C22_AnchorNotRemoved ==
    [][(op'.name = "remove_tempo_change_at" /\ Len(tempos) >= 1) =>
        /\ Len(tempos') >= 1
        /\ tempos'[1].ticks = tempos[1].ticks
        /\ tempos'[1].bpm = tempos[1].bpm]_vars

\* C24: remove_track(track_id) on a song holding a track with that id
\* leaves no track with the id and no track whose output is the track
\* track_id; the other tracks stay, in their order, and the tempo,
\* time-signature and structure lists are as before.  When no track has the
\* id it returns None and changes nothing.
C24_RemoveTrack ==
    [][(op'.name = "remove_track") =>
        /\ <<tempos', time_signatures', structures'>> = <<tempos, time_signatures, structures>>
        /\ IF \E k \in 1..Len(tracks) : tracks[k].id = op'.ty
           THEN /\ op'.r # -1
                /\ \A k \in 1..Len(tracks') :
                      /\ tracks'[k].id # op'.ty
                      /\ ~(tracks'[k].output.type = "TRACK"
                            /\ tracks'[k].output.track_id = op'.ty)
                /\ [k \in 1..Len(tracks') |-> tracks'[k].id]
                      = SelectSeq([k \in 1..Len(tracks) |-> tracks[k].id],
                                  LAMBDA id : id # op'.ty)
           ELSE op'.r = -1 /\ tracks' = tracks]_vars

\* A track was removed and the output of the track after it, which named
\* it, is gone.
C24_Witness ==
    /\ op.name = "remove_track"
    /\ op.r = 0
    /\ op.n = 3
    /\ Len(tracks) = 2
    /\ tracks[1].output = NoOutput
    /\ tracks[2].output.type = "TRACK"

\* The controller events of one instrument with the given number, in file
\* order.
Occurrences(instrument, number) ==
    SelectSeq(instrument.control_changes, LAMBDA cc : cc.number = number)

\* points is a curve of the occurrences ccs: one point per occurrence, the
\* ids 1, 2, ..., n, the points in ascending order of their occurrence's
\* source time, each tick the integer nearest to time * PPQ / ticks_per_beat.
IsCurveOf(points, ccs, PPQ, ticks_per_beat) ==
    /\ Len(points) = Len(ccs)
    /\ \A k \in 1..Len(points) : points[k].id = k
    /\ \E f \in {g \in [1..Len(ccs) -> 1..Len(ccs)] :
                    \A a, b \in 1..Len(ccs) : a # b => g[a] # g[b]} :
          \A k \in 1..Len(points) :
             /\ points[k].value = ccs[f[k]].value
             /\ 2 * (points[k].tick * ticks_per_beat - ccs[f[k]].time * PPQ) <= ticks_per_beat
             /\ 2 * (ccs[f[k]].time * PPQ - points[k].tick * ticks_per_beat) <= ticks_per_beat
             /\ k < Len(points) => ccs[f[k]].time <= ccs[f[k + 1]].time

\* C23: in a song made by from_midi, for each instrument and each of the
\* controllers volume (7) and pan (10): one occurrence sets the scalar of the
\* track and makes no automation curve; more than one makes a curve with one
\* point per occurrence, ordered by source time, ids 1..n, ticks rescaled by
\* target resolution / source resolution; no volume occurrence sets the
\* default volume and no pan occurrence leaves pan unset.
C23_FromMidiControllers ==
    [][(op'.name = "from_midi" /\ op'.ok) =>
        /\ Len(tracks') = Len(op'.evs.instruments)
        /\ \A i \in 1..Len(tracks') :
              LET volume_ccs == Occurrences(op'.evs.instruments[i], 7)
                  pan_ccs == Occurrences(op'.evs.instruments[i], 10)
              IN /\ Len(volume_ccs) = 0 =>
                       (tracks'[i].volume = DefaultVolume /\ tracks'[i].volume_points = <<>>)
                 /\ Len(volume_ccs) = 1 =>
                       /\ tracks'[i].volume = [set |-> "CC", value |-> volume_ccs[1].value]
                       /\ tracks'[i].volume_points = <<>>
                 /\ Len(volume_ccs) > 1 =>
                       IsCurveOf(tracks'[i].volume_points, volume_ccs, resolution',
                                 op'.evs.ticks_per_beat)
                 /\ Len(pan_ccs) = 0 =>
                       (tracks'[i].pan = Unset /\ tracks'[i].pan_points = <<>>)
                 /\ Len(pan_ccs) = 1 =>
                       /\ tracks'[i].pan = [set |-> "CC", value |-> pan_ccs[1].value - 64]
                       /\ tracks'[i].pan_points = <<>>
                 /\ Len(pan_ccs) > 1 =>
                       IsCurveOf(tracks'[i].pan_points, pan_ccs, resolution',
                                 op'.evs.ticks_per_beat)]_vars

\* Two instruments were imported: the first with volume events given out of
\* time order, which became a curve, the second with one pan event.
C23_Witness ==
    /\ op.name = "from_midi"
    /\ op.ok
    /\ Len(tracks) = 2
    /\ Len(tracks[1].volume_points) = 2
    /\ op.evs.instruments[1].control_changes[1].time
          > op.evs.instruments[1].control_changes[2].time
    /\ tracks[1].volume_points[1].tick < tracks[1].volume_points[2].tick
    /\ tracks[2].pan.set = "CC"
    /\ tracks[2].volume = DefaultVolume

====
